---- MODULE Spec2Model ----
(***************************************************************************)
(* A model of the trading loop of trading_system: EMAStrategy (signals and *)
(* the position ledger), RiskManager (sizing and admission) and            *)
(* TradingSystem (scan_and_trade, execute_trade,                           *)
(* force_exit_all_positions).                                              *)
(*                                                                         *)
(* Python floats are modelled as exact rationals <<numerator,              *)
(* denominator>> in lowest terms with a positive denominator, so 0.01 is   *)
(* <<1, 100>> and the price 99.01 is <<9901, 100>>.                        *)
(***************************************************************************)
EXTENDS Integers, Sequences, FiniteSets, TLC

None == "None"
\* the None that stands where a price is expected; no price has denominator 0
NoPrice == <<0, 0>>
\* the None that calculate_emas returns in place of an EMA series
NoEma == <<>>
\* the None returned in place of a signal dict
NoSignal == [action |-> None, symbol |-> None, price |-> NoPrice, reason |-> None]

(***************************************************************************)
(* Rational arithmetic standing for the float arithmetic of the source.    *)
(***************************************************************************)
Abs(n) == IF n < 0 THEN -n ELSE n

RECURSIVE Gcd(_, _)
Gcd(a, b) == IF b = 0 THEN a ELSE Gcd(b, a % b)

Rat(n, d) ==
    LET s == IF d < 0 THEN -1 ELSE 1
        g == Gcd(Abs(n), Abs(d))
    IN  <<(s * n) \div g, (s * d) \div g>>

R(n) == <<n, 1>>
RAdd(a, b) == Rat(a[1] * b[2] + b[1] * a[2], a[2] * b[2])
RSub(a, b) == Rat(a[1] * b[2] - b[1] * a[2], a[2] * b[2])
RMul(a, b) == Rat(a[1] * b[1], a[2] * b[2])
RDiv(a, b) == Rat(a[1] * b[2], a[2] * b[1])
RNeg(a) == <<-a[1], a[2]>>
RAbs(a) == <<Abs(a[1]), a[2]>>
RLe(a, b) == a[1] * b[2] <= b[1] * a[2]
RLt(a, b) == a[1] * b[2] < b[1] * a[2]
RGe(a, b) == RLe(b, a)
RGt(a, b) == RLt(b, a)
\* int(x): truncation toward zero
RInt(a) == IF a[1] >= 0 THEN a[1] \div a[2] ELSE -((-a[1]) \div a[2])

(***************************************************************************)
(* Config                                                                  *)
(***************************************************************************)
CAPITAL == R(50000)
RISK_PER_TRADE == Rat(2, 100)
MAX_POSITIONS == 3
FAST_EMA_PERIOD == 9
SLOW_EMA_PERIOD == 21
STOP_LOSS_PCT == Rat(1, 100)
TAKE_PROFIT_PCT == Rat(2, 100)
WATCHLIST == <<"RELIANCE", "TCS", "HDFC", "ICICIBANK", "INFY">>
\* RiskManager.__init__: self.daily_loss_limit = 0.05
daily_loss_limit == Rat(5, 100)
\* time of day in minutes after midnight
MARKET_OPEN == 9 * 60 + 15
MARKET_CLOSE == 15 * 60 + 30

Symbols == {WATCHLIST[i] : i \in 1..Len(WATCHLIST)}

(***************************************************************************)
(* Candle series                                                           *)
(***************************************************************************)
Candle(c) == [close |-> c]
Flat(n, c) == [i \in 1..n |-> Candle(c)]

\* a series of n candles: n - 1 closes at base, then one close at last
Series(n, base, last) == Flat(n - 1, base) \o <<Candle(last)>>

\* <<base, last>> of the series the data source is modelled to return
Moves ==
    {<<R(99), R(99)>>, <<R(99), R(100)>>, <<R(100), R(99)>>,
     <<R(100), Rat(9901, 100)>>, <<R(100), R(102)>>, <<R(102), R(102)>>}

\* The candle series the model draws from: the empty one, and for each move
\* one series of exactly the slow period and one a candle short of it.
Histories ==
    {<<>>} \cup
    {Series(n, m[1], m[2]) : n \in {SLOW_EMA_PERIOD - 1, SLOW_EMA_PERIOD}, m \in Moves}

\* a series of n candles: n - 2 closes at base, then closes at prev and last
Gapped(n, base, prev, last) == Flat(n - 2, base) \o <<Candle(prev), Candle(last)>>

\* <<base, prev, last>> of series that move in each of the last two candles
GapMoves ==
    {<<R(99), R(100), R(101)>>, <<R(99), R(100), R(90)>>,
     <<R(100), R(99), R(98)>>, <<R(100), R(99), R(110)>>}

GappedHistories == {Gapped(SLOW_EMA_PERIOD, m[1], m[2], m[3]) : m \in GapMoves}

(***************************************************************************)
(* EMAStrategy                                                             *)
(***************************************************************************)
\* pandas ewm(span, adjust=False).mean(): y[0] = x[0],
\* y[i] = alpha * x[i] + (1 - alpha) * y[i-1], alpha = 2 / (span + 1)
EwmStep(prev, x, alpha) == RAdd(RMul(alpha, x), RMul(RSub(R(1), alpha), prev))

EwmAppend(head, x, alpha) == Append(head, EwmStep(head[Len(head)], x, alpha))

RECURSIVE Ewm(_, _)
Ewm(closes, span) ==
    IF Len(closes) = 0 THEN <<>>
    ELSE IF Len(closes) = 1 THEN <<closes[1]>>
    ELSE EwmAppend(Ewm(SubSeq(closes, 1, Len(closes) - 1), span),
                   closes[Len(closes)], Rat(2, span + 1))

\* calculate_emas with the length test off by one
calculate_emas_short(data) ==
    IF Len(data) < SLOW_EMA_PERIOD - 1 THEN <<NoEma, NoEma>>
    ELSE LET closes == [i \in 1..Len(data) |-> data[i].close]
         IN  <<Ewm(closes, FAST_EMA_PERIOD), Ewm(closes, SLOW_EMA_PERIOD)>>

calculate_emas(data) ==
    IF Len(data) < SLOW_EMA_PERIOD THEN <<NoEma, NoEma>>
    ELSE LET closes == [i \in 1..Len(data) |-> data[i].close]
         IN  <<Ewm(closes, FAST_EMA_PERIOD), Ewm(closes, SLOW_EMA_PERIOD)>>

\* BullishCrossover without the case of equal previous EMAs
BullishCrossover_Strict(prev_fast, prev_slow, current_fast, current_slow) ==
    RLt(prev_fast, prev_slow) /\ RGt(current_fast, current_slow)

BullishCrossover(prev_fast, prev_slow, current_fast, current_slow) ==
    RLe(prev_fast, prev_slow) /\ RGt(current_fast, current_slow)

BearishCrossover(prev_fast, prev_slow, current_fast, current_slow) ==
    RGe(prev_fast, prev_slow) /\ RLt(current_fast, current_slow)

\* The crossover test of generate_signal: "bullish", "bearish" or "none";
\* None when generate_signal returns before it looks at the crossover.
CrossoverKind(fast_ema, slow_ema) ==
    IF fast_ema = NoEma \/ slow_ema = NoEma THEN None
    ELSE IF Len(fast_ema) < 2 \/ Len(slow_ema) < 2 THEN None
    ELSE IF BullishCrossover(fast_ema[Len(fast_ema) - 1], slow_ema[Len(slow_ema) - 1],
                             fast_ema[Len(fast_ema)], slow_ema[Len(slow_ema)])
         THEN "bullish"
    ELSE IF BearishCrossover(fast_ema[Len(fast_ema) - 1], slow_ema[Len(slow_ema) - 1],
                             fast_ema[Len(fast_ema)], slow_ema[Len(slow_ema)])
         THEN "bearish"
    ELSE "none"

Crossover(data) == CrossoverKind(calculate_emas(data)[1], calculate_emas(data)[2])

\* Crossover of every series the model uses, computed once
CrossoverTable == [d \in Histories \cup GappedHistories |-> Crossover(d)]
CrossoverOf(data) == CrossoverTable[data]

\* prev_fast, prev_slow, current_fast, current_slow of generate_signal: the
\* last two samples of each EMA; empty when calculate_emas returns None
Samples(fast_ema, slow_ema) ==
    IF fast_ema = NoEma \/ slow_ema = NoEma THEN <<>>
    ELSE <<fast_ema[Len(fast_ema) - 1], slow_ema[Len(slow_ema) - 1],
           fast_ema[Len(fast_ema)], slow_ema[Len(slow_ema)]>>

SamplesTable ==
    [d \in Histories \cup GappedHistories |->
        Samples(calculate_emas(d)[1], calculate_emas(d)[2])]
SamplesOf(data) == SamplesTable[data]

\* SignalFor without the test that the symbol has no open position
SignalFor_Held(x, pos, symbol, current_price) ==
    IF x = "bullish"
    THEN [action |-> "BUY", symbol |-> symbol, price |-> current_price,
          reason |-> "EMA Bullish Crossover"]
    ELSE IF x = "bearish"
    THEN IF symbol \in DOMAIN pos
         THEN [action |-> "SELL", symbol |-> symbol, price |-> current_price,
               reason |-> "EMA Bearish Crossover"]
         ELSE NoSignal
    ELSE NoSignal

\* SignalFor without the test that the symbol has an open position
SignalFor_Flat(x, pos, symbol, current_price) ==
    IF x = "bullish"
    THEN IF symbol \notin DOMAIN pos
         THEN [action |-> "BUY", symbol |-> symbol, price |-> current_price,
               reason |-> "EMA Bullish Crossover"]
         ELSE NoSignal
    ELSE IF x = "bearish"
    THEN [action |-> "SELL", symbol |-> symbol, price |-> current_price,
          reason |-> "EMA Bearish Crossover"]
    ELSE NoSignal

\* The signal generate_signal builds from the crossover. positions is the
\* dict self.positions: a function whose domain is the set of symbols with
\* an open position.
SignalFor(x, pos, symbol, current_price) ==
    IF x = "bullish"
    THEN IF symbol \notin DOMAIN pos
         THEN [action |-> "BUY", symbol |-> symbol, price |-> current_price,
               reason |-> "EMA Bullish Crossover"]
         ELSE NoSignal
    ELSE IF x = "bearish"
    THEN IF symbol \in DOMAIN pos
         THEN [action |-> "SELL", symbol |-> symbol, price |-> current_price,
               reason |-> "EMA Bearish Crossover"]
         ELSE NoSignal
    ELSE NoSignal

generate_signal(pos, symbol, data) ==
    IF CrossoverOf(data) = None THEN NoSignal
    ELSE SignalFor(CrossoverOf(data), pos, symbol, data[Len(data)].close)

\* ExitFor with strict comparisons
ExitFor_Strict(symbol, current_price, stop_loss, take_profit) ==
    IF RLt(current_price, stop_loss)
    THEN [action |-> "SELL", symbol |-> symbol, price |-> current_price,
          reason |-> "Stop Loss"]
    ELSE IF RGt(current_price, take_profit)
    THEN [action |-> "SELL", symbol |-> symbol, price |-> current_price,
          reason |-> "Take Profit"]
    ELSE NoSignal

\* ExitFor testing the take-profit level before the stop-loss level
ExitFor_TakeFirst(symbol, current_price, stop_loss, take_profit) ==
    IF RGe(current_price, take_profit)
    THEN [action |-> "SELL", symbol |-> symbol, price |-> current_price,
          reason |-> "Take Profit"]
    ELSE IF RLe(current_price, stop_loss)
    THEN [action |-> "SELL", symbol |-> symbol, price |-> current_price,
          reason |-> "Stop Loss"]
    ELSE NoSignal

\* the exit test of should_exit_position for an open long position
ExitFor(symbol, current_price, stop_loss, take_profit) ==
    IF RLe(current_price, stop_loss)
    THEN [action |-> "SELL", symbol |-> symbol, price |-> current_price,
          reason |-> "Stop Loss"]
    ELSE IF RGe(current_price, take_profit)
    THEN [action |-> "SELL", symbol |-> symbol, price |-> current_price,
          reason |-> "Take Profit"]
    ELSE NoSignal

should_exit_position(pos, symbol, current_price) ==
    IF symbol \notin DOMAIN pos THEN NoSignal
    ELSE IF pos[symbol].action # "BUY" THEN NoSignal
    ELSE ExitFor(symbol, current_price,
                 RMul(pos[symbol].entry_price, RSub(R(1), STOP_LOSS_PCT)),
                 RMul(pos[symbol].entry_price, RAdd(R(1), TAKE_PROFIT_PCT)))

\* self.positions[symbol] = {...}: inserts, or overwrites an existing entry
add_position(pos, symbol, action, price, quantity) ==
    [s \in DOMAIN pos \cup {symbol} |->
        IF s = symbol
        THEN [action |-> action, entry_price |-> price, quantity |-> quantity]
        ELSE pos[s]]

\* remove_position leaving the entry in place
remove_position_keep(pos, symbol) == pos

remove_position(pos, symbol) ==
    IF symbol \in DOMAIN pos
    THEN [s \in DOMAIN pos \ {symbol} |-> pos[s]]
    ELSE pos

(***************************************************************************)
(* RiskManager                                                             *)
(***************************************************************************)
\* calculate_position_size without the minimum quantity
calculate_position_size_noclamp(entry_price, stop_loss_price) ==
    IF RAbs(RSub(entry_price, stop_loss_price)) = R(0) THEN 0
    ELSE RInt(RDiv(RMul(CAPITAL, RISK_PER_TRADE),
                   RAbs(RSub(entry_price, stop_loss_price))))

calculate_position_size(entry_price, stop_loss_price) ==
    LET risk_amount == RMul(CAPITAL, RISK_PER_TRADE)
        price_diff == RAbs(RSub(entry_price, stop_loss_price))
    IN  IF price_diff = R(0) THEN 0
        ELSE LET quantity == RInt(RDiv(risk_amount, price_diff))
             IN  IF quantity < 1 THEN 1 ELSE quantity

\* can_take_position with > for >= in the position limit
can_take_position_gt(pnl, current_positions_count) ==
    IF current_positions_count > MAX_POSITIONS THEN FALSE
    ELSE IF RLe(pnl, RNeg(RMul(CAPITAL, daily_loss_limit))) THEN FALSE
    ELSE TRUE

\* can_take_position with < for <= in the daily loss limit
can_take_position_lt(pnl, current_positions_count) ==
    IF current_positions_count >= MAX_POSITIONS THEN FALSE
    ELSE IF RLt(pnl, RNeg(RMul(CAPITAL, daily_loss_limit))) THEN FALSE
    ELSE TRUE

can_take_position(pnl, current_positions_count) ==
    IF current_positions_count >= MAX_POSITIONS THEN FALSE
    ELSE IF RLe(pnl, RNeg(RMul(CAPITAL, daily_loss_limit))) THEN FALSE
    ELSE TRUE

(***************************************************************************)
(* The collaborators: ZerodhaClient, TradingLogger, TelegramBot            *)
(***************************************************************************)
\* a series whose latest candle has no 'close': data[-1]['close'] raises
\* KeyError
Malformed == <<[volume |-> 0]>>

\* get_historical_data: in mock mode always days * 24 * 12 candles, so never
\* fewer than the slow period; live, whatever the venue's API returned, and
\* [] on failure
get_historical_data(mock_trading) ==
    IF mock_trading
    THEN {d \in Histories : Len(d) >= SLOW_EMA_PERIOD}
    ELSE Histories \cup {Malformed}

\* get_ltp: a price, or None on any failure
get_ltp == {NoPrice, R(0), R(100)}

\* place_order: TRUE for an order id, FALSE for None; the mock order is
\* always given an id
place_order(mock_trading) == IF mock_trading THEN {TRUE} ELSE {TRUE, FALSE}

\* Python truth value of a price or None
Truthy(price) == price[1] # 0

(***************************************************************************)
(* TradingSystem                                                           *)
(***************************************************************************)
\* wall-clock times the model draws datetime.now().time() from
ClockTimes == {MARKET_OPEN - 1, MARKET_OPEN, 12 * 60, MARKET_CLOSE, MARKET_CLOSE + 1}

\* is_market_open with the closing time excluded
is_market_open_strict(mock_trading, now) ==
    IF mock_trading THEN TRUE
    ELSE MARKET_OPEN <= now /\ now < MARKET_CLOSE

is_market_open(mock_trading, now) ==
    IF mock_trading THEN TRUE
    ELSE MARKET_OPEN <= now /\ now <= MARKET_CLOSE

\* A call, or a loop iteration, is described by what it leaves behind: the
\* ledger, and in call order the orders handed to place_order (with the
\* venue's answer), the rows written by log_trade and the alerts sent.
Nothing(pos) == [positions |-> pos, orders |-> <<>>, trades |-> <<>>, alerts |-> <<>>]

\* Executed without the test "if order_id"
Executed_Unconfirmed(pos, signal, quantity, order_id) ==
    IF quantity <= 0
    THEN [positions |-> pos, orders |-> <<>>, trades |-> <<>>, alerts |-> <<>>]
    ELSE [positions |->
              IF signal.action = "BUY"
              THEN add_position(pos, signal.symbol, signal.action, signal.price,
                                quantity)
              ELSE remove_position(pos, signal.symbol),
          orders |-> <<[symbol |-> signal.symbol, transaction_type |-> signal.action,
                        quantity |-> quantity, confirmed |-> order_id]>>,
          trades |-> <<[symbol |-> signal.symbol, action |-> signal.action,
                        quantity |-> quantity, price |-> signal.price,
                        reason |-> signal.reason]>>,
          alerts |-> <<[symbol |-> signal.symbol, action |-> signal.action,
                        quantity |-> quantity, price |-> signal.price,
                        reason |-> signal.reason]>>]

\* Executed without the test "if quantity <= 0"
Executed_AnyQuantity(pos, signal, quantity, order_id) ==
    [positions |->
         IF ~order_id THEN pos
         ELSE IF signal.action = "BUY"
         THEN add_position(pos, signal.symbol, signal.action, signal.price, quantity)
         ELSE remove_position(pos, signal.symbol),
     orders |-> <<[symbol |-> signal.symbol, transaction_type |-> signal.action,
                   quantity |-> quantity, confirmed |-> order_id]>>,
     trades |-> IF ~order_id THEN <<>>
                ELSE <<[symbol |-> signal.symbol, action |-> signal.action,
                        quantity |-> quantity, price |-> signal.price,
                        reason |-> signal.reason]>>,
     alerts |-> IF ~order_id THEN <<>>
                ELSE <<[symbol |-> signal.symbol, action |-> signal.action,
                        quantity |-> quantity, price |-> signal.price,
                        reason |-> signal.reason]>>]

\* execute_trade from "if quantity <= 0" on; order_id is TRUE for an order
\* id and FALSE for None
Executed(pos, signal, quantity, order_id) ==
    IF quantity <= 0
    THEN Nothing(pos)
    ELSE IF order_id
    THEN [positions |->
              IF signal.action = "BUY"
              THEN add_position(pos, signal.symbol, signal.action, signal.price,
                                quantity)
              ELSE remove_position(pos, signal.symbol),
          orders |-> <<[symbol |-> signal.symbol, transaction_type |-> signal.action,
                        quantity |-> quantity, confirmed |-> TRUE]>>,
          trades |-> <<[symbol |-> signal.symbol, action |-> signal.action,
                        quantity |-> quantity, price |-> signal.price,
                        reason |-> signal.reason]>>,
          alerts |-> <<[symbol |-> signal.symbol, action |-> signal.action,
                        quantity |-> quantity, price |-> signal.price,
                        reason |-> signal.reason]>>]
    ELSE [positions |-> pos,
          orders |-> <<[symbol |-> signal.symbol, transaction_type |-> signal.action,
                        quantity |-> quantity, confirmed |-> FALSE]>>,
          trades |-> <<>>, alerts |-> <<>>]

\* execute_trade sizing a SELL from its price, as it sizes a BUY
execute_trade_resize(pos, signal, order_id) ==
    IF signal.action = "BUY" \/ signal.symbol \in DOMAIN pos
    THEN Executed(pos, signal,
                  calculate_position_size(signal.price,
                      RMul(signal.price, RSub(R(1), STOP_LOSS_PCT))),
                  order_id)
    ELSE Nothing(pos)

execute_trade(pos, signal, order_id) ==
    IF signal.action = "BUY"
    THEN Executed(pos, signal,
                  calculate_position_size(signal.price,
                      RMul(signal.price, RSub(R(1), STOP_LOSS_PCT))),
                  order_id)
    ELSE IF signal.symbol \in DOMAIN pos
         THEN Executed(pos, signal, pos[signal.symbol].quantity, order_id)
         ELSE Nothing(pos)

VARIABLES
    mock_trading,   \* Config.MOCK_TRADING
    positions,      \* EMAStrategy.positions
    daily_pnl,      \* RiskManager.daily_pnl
    pc,             \* "idle", or the loop that is running: "scan", "force"
    idx,            \* scan_and_trade: index in WATCHLIST of the next symbol
    snapshot,       \* force_exit_all_positions: symbols of list(positions.items())
    visited,        \* force_exit_all_positions: symbols done, with the outcome
    obs,            \* what the last step read and decided
    orders,         \* the place_order calls of the last step
    trades,         \* the log_trade rows of the last step
    alerts,         \* the send_trade_alert calls of the last step
    risk,           \* the last direct call of a RiskManager method
    running,        \* TradingSystem.running
    loop,           \* where start() is: "init" before the call, then "poll", ...
    clock,          \* the wall clock, in minutes after today's midnight
    jobs,           \* schedule.jobs: next_run and last_run of the two jobs
    pending         \* run_pending: the due jobs not yet returned, in run order

vars == <<mock_trading, positions, daily_pnl, pc, idx, snapshot, visited,
          obs, orders, trades, alerts, risk, running, loop, clock, jobs, pending>>

\* the state of start() and of the schedule module
schedVars == <<running, loop, clock, jobs, pending>>

NoPositions == [s \in {} |-> None]

NoRisk == [fn |-> None, count |-> 0, entry |-> NoPrice, stop |-> NoPrice,
           admit |-> FALSE, quantity |-> 0, pnl |-> NoPrice]

NoObs == [op |-> "init", job |-> None, raised |-> FALSE, unfilled |-> {}, symbol |-> None, now |-> 0, market_open |-> FALSE, bars |-> 0,
          price |-> NoPrice, held |-> FALSE, entry |-> NoPrice,
          exit |-> None, xover |-> None, signal |-> None, admit |-> None,
          emas |-> <<>>]

\* schedule.jobs before start() registers the two jobs: no job has a time
\* yet, and -1 fills the fields until Start sets them
NoJobs == [j \in {"scan", "force"} |-> [next_run |-> -1, last_run |-> -1]]

Init ==
    /\ mock_trading \in BOOLEAN
    /\ positions = NoPositions
    /\ daily_pnl = R(0)
    /\ pc = "idle"
    /\ idx = 0
    /\ snapshot = {}
    /\ visited = NoPositions
    /\ obs = NoObs
    /\ orders = <<>>
    /\ trades = <<>>
    /\ alerts = <<>>
    /\ risk = NoRisk
    /\ running = FALSE
    /\ loop = "init"
    /\ clock = 0
    /\ jobs = NoJobs
    /\ pending = <<>>

\* ScanGate going on to the watchlist when the market is closed
ScanGate_NoReturn(now) ==
    /\ pc = "idle"
    /\ obs' = [NoObs EXCEPT !.op = "gate", !.now = now,
                            !.market_open = is_market_open(mock_trading, now)]
    /\ pc' = "scan"
    /\ idx' = 1
    /\ snapshot' = {}
    /\ visited' = NoPositions
    /\ orders' = <<>>
    /\ trades' = <<>>
    /\ alerts' = <<>>
    /\ UNCHANGED <<mock_trading, positions, daily_pnl, risk>>

\* scan_and_trade up to its loop: the market-hours gate, read at time now
ScanGate(now) ==
    /\ pc = "idle"
    /\ LET open == is_market_open(mock_trading, now)
       IN  /\ obs' = [NoObs EXCEPT !.op = "gate", !.now = now, !.market_open = open]
           /\ pc' = IF open THEN "scan" ELSE "idle"
           /\ idx' = IF open THEN 1 ELSE 0
    /\ snapshot' = {}
    /\ visited' = NoPositions
    /\ orders' = <<>>
    /\ trades' = <<>>
    /\ alerts' = <<>>
    /\ UNCHANGED <<mock_trading, positions, daily_pnl, risk>>

\* scan_and_trade called on its own, at any time of the day
ScanStart ==
    /\ \E now \in ClockTimes : ScanGate(now)
    /\ UNCHANGED schedVars

\* two calls of execute_trade, one after the other
Both(first, second) ==
    [positions |-> second.positions, orders |-> first.orders \o second.orders,
     trades |-> first.trades \o second.trades,
     alerts |-> first.alerts \o second.alerts]

\* ScanDecide without the "continue" after the exit
ScanDecide_NoContinue(pos, pnl, order_id, seen, exit_signal, signal) ==
    IF signal # NoSignal /\ can_take_position(pnl, Cardinality(DOMAIN pos))
    THEN [obs |-> [seen EXCEPT !.exit = exit_signal.reason,
                               !.signal = signal.action, !.admit = "admitted"],
          out |-> IF exit_signal # NoSignal
                  THEN Both(execute_trade(pos, exit_signal, order_id),
                            execute_trade(
                                execute_trade(pos, exit_signal, order_id).positions,
                                signal, order_id))
                  ELSE execute_trade(pos, signal, order_id)]
    ELSE IF exit_signal # NoSignal
    THEN [obs |-> [seen EXCEPT !.exit = exit_signal.reason],
          out |-> execute_trade(pos, exit_signal, order_id)]
    ELSE IF signal # NoSignal
    THEN [obs |-> [seen EXCEPT !.signal = signal.action, !.admit = "refused"],
          out |-> [positions |-> pos, orders |-> <<>>, trades |-> <<>>,
                   alerts |-> <<>>]]
    ELSE [obs |-> seen,
          out |-> [positions |-> pos, orders |-> <<>>, trades |-> <<>>,
                   alerts |-> <<>>]]

\* ScanDecide executing every signal, without asking can_take_position
ScanDecide_NoAdmit(pos, pnl, order_id, seen, exit_signal, signal) ==
    IF exit_signal # NoSignal
    THEN [obs |-> [seen EXCEPT !.exit = exit_signal.reason],
          out |-> execute_trade(pos, exit_signal, order_id)]
    ELSE IF signal # NoSignal
    THEN [obs |-> [seen EXCEPT !.signal = signal.action, !.admit = "admitted"],
          out |-> execute_trade(pos, signal, order_id)]
    ELSE [obs |-> seen, out |-> Nothing(pos)]

\* the loop body of scan_and_trade from "if exit_signal:" on
ScanDecide(pos, pnl, order_id, seen, exit_signal, signal) ==
    IF exit_signal # NoSignal
    THEN [obs |-> [seen EXCEPT !.exit = exit_signal.reason],
          out |-> execute_trade(pos, exit_signal, order_id)]
    ELSE IF signal # NoSignal
    THEN IF can_take_position(pnl, Cardinality(DOMAIN pos))
         THEN [obs |-> [seen EXCEPT !.signal = signal.action, !.admit = "admitted"],
               out |-> execute_trade(pos, signal, order_id)]
         ELSE [obs |-> [seen EXCEPT !.signal = signal.action, !.admit = "refused"],
               out |-> Nothing(pos)]
    ELSE [obs |-> seen, out |-> Nothing(pos)]

\* what the step saw: the symbol, its data and its ledger entry
Seen(pos, symbol, data) ==
    [NoObs EXCEPT !.op = "scan", !.symbol = symbol, !.market_open = TRUE,
                  !.bars = Len(data),
                  !.price = IF Len(data) = 0 THEN NoPrice ELSE data[Len(data)].close,
                  !.held = symbol \in DOMAIN pos,
                  !.entry = IF symbol \in DOMAIN pos
                            THEN pos[symbol].entry_price ELSE NoPrice,
                  !.xover = IF Len(data) = 0 THEN None ELSE CrossoverOf(data)]

\* what the step saw when reading the latest close raised
Raised(pos, symbol, data) ==
    [NoObs EXCEPT !.op = "scan", !.symbol = symbol, !.market_open = TRUE,
                  !.bars = Len(data), !.raised = TRUE,
                  !.held = symbol \in DOMAIN pos,
                  !.entry = IF symbol \in DOMAIN pos
                            THEN pos[symbol].entry_price ELSE NoPrice]

\* What the body of the loop of scan_and_trade does for one symbol. An
\* exception raised in the body is caught by the "except Exception" of the
\* loop, which logs it and goes on to the next symbol.
ScanBody(pos, pnl, symbol, data, order_id) ==
    IF Len(data) = 0
    THEN [obs |-> Seen(pos, symbol, data), out |-> Nothing(pos)]
    ELSE IF "close" \notin DOMAIN data[Len(data)]
    THEN [obs |-> Raised(pos, symbol, data), out |-> Nothing(pos)]
    ELSE ScanDecide(pos, pnl, order_id, Seen(pos, symbol, data),
                    should_exit_position(pos, symbol, data[Len(data)].close),
                    generate_signal(pos, symbol, data))

\* ScanAfter leaving the loop at a symbol without data or with an exception
ScanAfter_Abort(seen, i) ==
    IF i = Len(WATCHLIST) \/ seen.bars = 0 \/ seen.raised THEN "idle" ELSE "scan"

\* Where scan_and_trade goes after the iteration for WATCHLIST[i]: to the
\* next symbol, whatever the iteration saw ("continue", or the end of the
\* body, or the handler of "except Exception")
ScanAfter(seen, i) == IF i = Len(WATCHLIST) THEN "idle" ELSE "scan"

\* The symbols of the running cycle whose BUY was handed to place_order and
\* not confirmed, this iteration's included; seen is what the iteration saw
\* and before what the step before it left.
Unfilled(before, seen, out) ==
    (IF before.op = "scan" THEN before.unfilled ELSE {})
        \cup {seen.symbol : i \in {j \in 1..Len(out.orders) :
                                    /\ out.orders[j].transaction_type = "BUY"
                                    /\ ~out.orders[j].confirmed}}

\* one iteration of the loop of scan_and_trade, the candles drawn from datas
ScanStep(datas) ==
    /\ pc = "scan"
    /\ \E data \in datas,
          order_id \in place_order(mock_trading) :
         \E r \in {ScanBody(positions, daily_pnl, WATCHLIST[idx], data, order_id)} :
             /\ obs' = [r.obs EXCEPT !.unfilled = Unfilled(obs, r.obs, r.out)]
             /\ positions' = r.out.positions
             /\ orders' = r.out.orders
             /\ trades' = r.out.trades
             /\ alerts' = r.out.alerts
             /\ pc' = ScanAfter(r.obs, idx)
             /\ idx' = IF ScanAfter(r.obs, idx) = "idle" THEN 0 ELSE idx + 1
    /\ UNCHANGED <<mock_trading, daily_pnl, snapshot, visited, risk>>

ScanSymbol ==
    /\ ScanStep(get_historical_data(mock_trading))
    /\ UNCHANGED schedVars

\* force_exit_all_positions up to its loop: list(self.strategy.positions.items())
ForceExitSnapshot ==
    /\ pc = "idle"
    /\ snapshot' = DOMAIN positions
    /\ visited' = NoPositions
    /\ pc' = IF DOMAIN positions = {} THEN "idle" ELSE "force"
    /\ obs' = [NoObs EXCEPT !.op = "snapshot"]
    /\ orders' = <<>>
    /\ trades' = <<>>
    /\ alerts' = <<>>
    /\ UNCHANGED <<mock_trading, positions, daily_pnl, idx, risk>>

\* force_exit_all_positions called on its own
ForceExitStart ==
    /\ ForceExitSnapshot
    /\ UNCHANGED schedVars

\* what the body of the loop of force_exit_all_positions does for one symbol
ForceExitBody(pos, symbol, current_price, order_id) ==
    IF Truthy(current_price)
    THEN execute_trade(pos,
                       [action |-> "SELL", symbol |-> symbol, price |-> current_price,
                        reason |-> "Force Exit - Market Close"],
                       order_id)
    ELSE Nothing(pos)

\* the outcome of one iteration of the loop, as the model records it
ForceExitResult(current_price, out) ==
    IF ~Truthy(current_price) THEN "no price"
    ELSE IF out.orders # <<>> /\ out.orders[1].confirmed THEN "sold"
    ELSE "not sold"

\* ForceExitAfter leaving the loop when no price could be fetched
ForceExitAfter_Abort(result, done, snap) ==
    IF done = snap \/ result = "no price" THEN "idle" ELSE "force"

\* Where force_exit_all_positions goes after an iteration with this result:
\* to the next symbol of the snapshot whatever the result was (a falsy price
\* skips the symbol, and an exception is caught inside the loop).
ForceExitAfter(result, done, snap) == IF done = snap THEN "idle" ELSE "force"

\* One iteration of the loop of force_exit_all_positions. The dict keeps its
\* insertion order, which the ledger of the model does not record: the
\* symbols of the snapshot are taken in any order.
ForceExitSymbol ==
    /\ pc = "force"
    /\ \E symbol \in snapshot \ DOMAIN visited,
          current_price \in get_ltp,
          order_id \in place_order(mock_trading) :
         \E out \in {ForceExitBody(positions, symbol, current_price, order_id)} :
             /\ obs' = [NoObs EXCEPT !.op = "force", !.symbol = symbol,
                                     !.price = current_price,
                                     !.held = symbol \in DOMAIN positions,
                                     !.entry = IF symbol \in DOMAIN positions
                                               THEN positions[symbol].entry_price
                                               ELSE NoPrice,
                                     !.signal = IF Truthy(current_price)
                                                THEN "SELL" ELSE None]
             /\ positions' = out.positions
             /\ orders' = out.orders
             /\ trades' = out.trades
             /\ alerts' = out.alerts
             /\ visited' = [s \in DOMAIN visited \cup {symbol} |->
                               IF s = symbol THEN ForceExitResult(current_price, out)
                               ELSE visited[s]]
             /\ pc' = ForceExitAfter(ForceExitResult(current_price, out),
                                     DOMAIN visited \cup {symbol}, snapshot)
    /\ UNCHANGED <<mock_trading, daily_pnl, idx, snapshot, risk>>
    /\ UNCHANGED schedVars

Next ==
    \/ ScanStart
    \/ ScanSymbol
    \/ ForceExitStart
    \/ ForceExitSymbol

Spec == Init /\ [][Next]_vars

(***************************************************************************)
(* execute_trade called on its own, with any signal                        *)
(***************************************************************************)
\* the signals the model hands to execute_trade: entries at a price of 0
\* (stop distance 0) and of 100, and exits, for the first two symbols
Signals ==
    {[action |-> "BUY", symbol |-> WATCHLIST[i], price |-> p,
      reason |-> "EMA Bullish Crossover"] : i \in {1, 2}, p \in {R(0), R(100)}}
    \cup
    {[action |-> "SELL", symbol |-> WATCHLIST[i], price |-> R(100),
      reason |-> "EMA Bearish Crossover"] : i \in {1, 2}}

\* ExecuteTrade settling the trade's profit or loss into daily_pnl when a
\* SELL is confirmed
ExecuteTrade_Settle ==
    /\ pc = "idle"
    /\ \E signal \in Signals, order_id \in place_order(mock_trading) :
         \E out \in {execute_trade(positions, signal, order_id)} :
             /\ obs' = [NoObs EXCEPT !.op = "execute", !.symbol = signal.symbol,
                                     !.price = signal.price,
                                     !.held = signal.symbol \in DOMAIN positions,
                                     !.entry = IF signal.symbol \in DOMAIN positions
                                               THEN positions[signal.symbol].entry_price
                                               ELSE NoPrice,
                                     !.signal = signal.action]
             /\ positions' = out.positions
             /\ orders' = out.orders
             /\ trades' = out.trades
             /\ alerts' = out.alerts
             /\ daily_pnl' =
                    IF signal.action = "SELL" /\ out.trades # <<>>
                    THEN RAdd(daily_pnl,
                              RMul(R(positions[signal.symbol].quantity),
                                   RSub(signal.price,
                                        positions[signal.symbol].entry_price)))
                    ELSE daily_pnl
    /\ snapshot' = {}
    /\ visited' = NoPositions
    /\ UNCHANGED <<mock_trading, pc, idx, risk>>
    /\ UNCHANGED schedVars

ExecuteTrade ==
    /\ pc = "idle"
    /\ \E signal \in Signals, order_id \in place_order(mock_trading) :
         \E out \in {execute_trade(positions, signal, order_id)} :
             /\ obs' = [NoObs EXCEPT !.op = "execute", !.symbol = signal.symbol,
                                     !.price = signal.price,
                                     !.held = signal.symbol \in DOMAIN positions,
                                     !.entry = IF signal.symbol \in DOMAIN positions
                                               THEN positions[signal.symbol].entry_price
                                               ELSE NoPrice,
                                     !.signal = signal.action]
             /\ positions' = out.positions
             /\ orders' = out.orders
             /\ trades' = out.trades
             /\ alerts' = out.alerts
    /\ snapshot' = {}
    /\ visited' = NoPositions
    /\ UNCHANGED <<mock_trading, daily_pnl, pc, idx, risk>>
    /\ UNCHANGED schedVars

NextExec ==
    \/ ScanStart
    \/ ScanSymbol
    \/ ForceExitStart
    \/ ForceExitSymbol
    \/ ExecuteTrade

SpecExec == Init /\ [][NextExec]_vars

(***************************************************************************)
(* The methods of RiskManager called on their own                          *)
(***************************************************************************)
\* open-position counts the model asks can_take_position about: 0..MaxCount
MaxCount == 4
\* the values the model lets daily_pnl take
PnlValues == {R(-2501), R(-2500), R(-2499), R(0), R(100)}
SizePrices == {R(0), R(99), Rat(9901, 100), R(100), R(1100), R(1101)}

update_daily_pnl(pnl) ==
    /\ pc = "idle"
    /\ RAdd(daily_pnl, pnl) \in PnlValues
    /\ daily_pnl' = RAdd(daily_pnl, pnl)
    /\ risk' = [NoRisk EXCEPT !.fn = "update_daily_pnl", !.pnl = pnl]
    /\ UNCHANGED <<mock_trading, positions, pc, idx, snapshot, visited,
                   obs, orders, trades, alerts>>
    /\ UNCHANGED schedVars

UpdateDailyPnl ==
    \E target \in PnlValues \ {daily_pnl} : update_daily_pnl(RSub(target, daily_pnl))

CanTakePosition ==
    /\ pc = "idle"
    /\ \E count \in 0..MaxCount :
         risk' = [NoRisk EXCEPT !.fn = "can_take_position", !.count = count,
                                !.admit = can_take_position(daily_pnl, count)]
    /\ UNCHANGED <<mock_trading, positions, daily_pnl, pc, idx, snapshot, visited,
                   obs, orders, trades, alerts>>
    /\ UNCHANGED schedVars

CalculatePositionSize ==
    /\ pc = "idle"
    /\ \E entry_price \in SizePrices, stop_loss_price \in SizePrices :
         risk' = [NoRisk EXCEPT !.fn = "calculate_position_size",
                                !.entry = entry_price, !.stop = stop_loss_price,
                                !.quantity = calculate_position_size(entry_price,
                                                                     stop_loss_price)]
    /\ UNCHANGED <<mock_trading, positions, daily_pnl, pc, idx, snapshot, visited,
                   obs, orders, trades, alerts>>
    /\ UNCHANGED schedVars

NextRisk ==
    \/ UpdateDailyPnl
    \/ CanTakePosition
    \/ CalculatePositionSize

SpecRisk == Init /\ [][NextRisk]_vars

(***************************************************************************)
(* The three operations of TradingSystem together with update_daily_pnl    *)
(***************************************************************************)
\* the profit and the loss the model settles: a loss that reaches the daily
\* limit of can_take_position, and a profit
SettledPnl == {R(-2500), R(100)}

SettleTrade ==
    \E pnl \in SettledPnl : update_daily_pnl(pnl)

NextSettle ==
    \/ ScanStart
    \/ ScanSymbol
    \/ ForceExitStart
    \/ ForceExitSymbol
    \/ ExecuteTrade
    \/ SettleTrade

SpecSettle == Init /\ [][NextSettle]_vars

(***************************************************************************)
(* The methods of EMAStrategy called on their own                          *)
(***************************************************************************)
\* the entry prices the model records: a price of 0 and a negative price
\* (where the stop-loss level is not below the take-profit level), and 100
EntryPrices == {R(-100), R(0), R(100)}
\* the latest prices the model asks should_exit_position about
ExitPrices == {R(-100), R(0), R(99), R(100), R(101), R(102)}

\* the ledger entry of symbol as the observation records it
Held(pos, symbol) ==
    [NoObs EXCEPT !.symbol = symbol,
                  !.held = symbol \in DOMAIN pos,
                  !.entry = IF symbol \in DOMAIN pos
                            THEN pos[symbol].entry_price ELSE NoPrice]

StrategyStep(pos, seen) ==
    /\ pc = "idle"
    /\ positions' = pos
    /\ obs' = seen
    /\ orders' = <<>>
    /\ trades' = <<>>
    /\ alerts' = <<>>
    /\ snapshot' = {}
    /\ visited' = NoPositions
    /\ UNCHANGED <<mock_trading, daily_pnl, pc, idx, risk>>
    /\ UNCHANGED schedVars

\* add_position as execute_trade calls it: with the action BUY
AddPosition ==
    \E i \in {1, 2}, price \in EntryPrices :
        StrategyStep(add_position(positions, WATCHLIST[i], "BUY", price, 1),
                     [Held(positions, WATCHLIST[i]) EXCEPT !.op = "add_position",
                                                           !.price = price])

RemovePosition ==
    \E i \in {1, 2} :
        StrategyStep(remove_position(positions, WATCHLIST[i]),
                     [Held(positions, WATCHLIST[i]) EXCEPT !.op = "remove_position"])

GenerateSignal ==
    \E i \in {1, 2}, data \in Histories \cup GappedHistories :
        \E signal \in {generate_signal(positions, WATCHLIST[i], data)} :
            StrategyStep(positions,
                         [Held(positions, WATCHLIST[i]) EXCEPT
                             !.op = "generate_signal",
                             !.bars = Len(data),
                             !.price = IF Len(data) = 0 THEN NoPrice
                                       ELSE data[Len(data)].close,
                             !.emas = SamplesOf(data),
                             !.signal = signal.action])

ShouldExitPosition ==
    \E i \in {1, 2}, current_price \in ExitPrices :
        \E signal \in {should_exit_position(positions, WATCHLIST[i], current_price)} :
            StrategyStep(positions,
                         [Held(positions, WATCHLIST[i]) EXCEPT
                             !.op = "should_exit_position",
                             !.price = current_price,
                             !.exit = signal.reason])

NextStrategy ==
    \/ AddPosition
    \/ RemovePosition
    \/ GenerateSignal
    \/ ShouldExitPosition

SpecStrategy == Init /\ [][NextStrategy]_vars

(***************************************************************************)
(* TradingSystem.start and the schedule module                             *)
(***************************************************************************)
SCAN_INTERVAL_MINUTES == 5
\* schedule.every().day.at("15:15")
FORCE_EXIT_AT == 15 * 60 + 15
DAY == 24 * 60

\* The times of day at which the model reads the wall clock, in order. Times
\* are minutes after today's midnight: a time of tomorrow is DAY or more, a
\* time of yesterday is negative.
Ticks == <<MARKET_OPEN, 12 * 60, FORCE_EXIT_AT, FORCE_EXIT_AT + SCAN_INTERVAL_MINUTES,
           MARKET_CLOSE + SCAN_INTERVAL_MINUTES>>

\* None for a last_run, and any time at or before yesterday's midnight
Never == -DAY

\* Job._schedule_next_run at time now: the interval job runs again after
\* SCAN_INTERVAL_MINUTES, the daily job at the next 15:15 after now
schedule_next_run(j, now) ==
    IF j = "scan" THEN now + SCAN_INTERVAL_MINUTES
    ELSE IF FORCE_EXIT_AT > now THEN FORCE_EXIT_AT
    ELSE FORCE_EXIT_AT + DAY

\* Job.should_run
should_run(j) == clock >= jobs[j].next_run

\* run_pending: sorted(job for job in self.jobs if job.should_run), jobs
\* compared by next_run, the job registered first in front on a tie
Runnable ==
    IF should_run("scan") /\ should_run("force")
    THEN IF jobs["scan"].next_run <= jobs["force"].next_run
         THEN <<"scan", "force">> ELSE <<"force", "scan">>
    ELSE IF should_run("scan") THEN <<"scan">>
    ELSE IF should_run("force") THEN <<"force">>
    ELSE <<>>

\* the times of the jobs once midnight has passed
Yesterday(t) == IF t - DAY < Never THEN Never ELSE t - DAY

\* time.sleep returns: the clock still reads the same tick, or the next one
Elapse ==
    \/ UNCHANGED <<clock, jobs>>
    \/ \E i \in 1..(Len(Ticks) - 1) :
         /\ clock = Ticks[i]
         /\ clock' = Ticks[i + 1]
         /\ UNCHANGED jobs
    \/ /\ clock = Ticks[Len(Ticks)]
       /\ clock' = Ticks[1]
       /\ jobs' = [j \in DOMAIN jobs |->
                      [next_run |-> Yesterday(jobs[j].next_run),
                       last_run |-> Yesterday(jobs[j].last_run)]]

\* start() up to its main loop: the two jobs are registered, running is set
Start ==
    /\ loop = "init"
    /\ pc = "idle"
    /\ \E now \in {Ticks[i] : i \in 1..Len(Ticks)} :
         /\ clock' = now
         /\ jobs' = [j \in {"scan", "force"} |->
                        [next_run |-> schedule_next_run(j, now), last_run |-> Never]]
    /\ running' = TRUE
    /\ loop' = "poll"
    /\ pending' = <<>>
    /\ UNCHANGED <<mock_trading, positions, daily_pnl, pc, idx, snapshot, visited,
                   obs, orders, trades, alerts, risk>>

\* schedule.run_pending() is entered: the due jobs are collected
RunPending ==
    /\ loop = "poll"
    /\ running
    /\ pending' = Runnable
    /\ loop' = IF Runnable = <<>> THEN "sleep" ELSE "jobs"
    /\ UNCHANGED <<mock_trading, positions, daily_pnl, pc, idx, snapshot, visited,
                   obs, orders, trades, alerts, risk, running, clock, jobs>>

\* Job.run calls job_func: scan_and_trade
RunScan ==
    /\ loop = "jobs"
    /\ Head(pending) = "scan"
    /\ ScanGate(clock)
    /\ loop' = "job"
    /\ UNCHANGED <<running, clock, jobs, pending>>

\* Job.run calls job_func: force_exit_all_positions
RunForceExit ==
    /\ loop = "jobs"
    /\ Head(pending) = "force"
    /\ ForceExitSnapshot
    /\ loop' = "job"
    /\ UNCHANGED <<running, clock, jobs, pending>>

\* JobReturn not waiting for the job to finish
JobReturn_Early ==
    /\ loop = "job"
    /\ jobs' = [jobs EXCEPT ![Head(pending)] =
                   [next_run |-> schedule_next_run(Head(pending), clock),
                    last_run |-> clock]]
    /\ pending' = Tail(pending)
    /\ loop' = IF Tail(pending) = <<>> THEN "sleep" ELSE "jobs"
    /\ UNCHANGED <<mock_trading, positions, daily_pnl, pc, idx, snapshot, visited,
                   obs, orders, trades, alerts, risk, running, clock>>

\* job_func has returned: Job.run sets last_run and schedules the next run,
\* and run_pending goes on to the next due job
JobReturn ==
    /\ loop = "job"
    /\ pc = "idle"
    /\ jobs' = [jobs EXCEPT ![Head(pending)] =
                   [next_run |-> schedule_next_run(Head(pending), clock),
                    last_run |-> clock]]
    /\ pending' = Tail(pending)
    /\ loop' = IF Tail(pending) = <<>> THEN "sleep" ELSE "jobs"
    /\ UNCHANGED <<mock_trading, positions, daily_pnl, pc, idx, snapshot, visited,
                   obs, orders, trades, alerts, risk, running, clock>>

\* JobRaises with the error ending the main loop
JobRaises_Stop ==
    /\ loop = "job"
    /\ pc # "idle"
    /\ obs' = [NoObs EXCEPT !.op = "error", !.job = Head(pending)]
    /\ pc' = "idle"
    /\ idx' = 0
    /\ orders' = <<>>
    /\ trades' = <<>>
    /\ alerts' = <<>>
    /\ pending' = <<>>
    /\ running' = FALSE
    /\ loop' = "returned"
    /\ UNCHANGED <<mock_trading, positions, daily_pnl, snapshot, visited, risk,
                   clock, jobs>>

\* An exception that is not an interrupt escapes the running job, from
\* outside the try blocks of its loop: run_pending is left with the job's
\* next_run as it was, and "except Exception" of start() catches it.
JobRaises ==
    /\ loop = "job"
    /\ pc # "idle"
    /\ obs' = [NoObs EXCEPT !.op = "error", !.job = Head(pending)]
    /\ pc' = "idle"
    /\ idx' = 0
    /\ orders' = <<>>
    /\ trades' = <<>>
    /\ alerts' = <<>>
    /\ pending' = <<>>
    /\ loop' = "backoff"
    /\ UNCHANGED <<mock_trading, positions, daily_pnl, snapshot, visited, risk,
                   running, clock, jobs>>

\* time.sleep(30) returns and "while self.running" is tested again
Sleep ==
    /\ loop = "sleep"
    /\ Elapse
    /\ loop' = "poll"
    /\ UNCHANGED <<mock_trading, positions, daily_pnl, pc, idx, snapshot, visited,
                   obs, orders, trades, alerts, risk, running, pending>>

\* time.sleep(60) in the handler of "except Exception" returns
Backoff ==
    /\ loop = "backoff"
    /\ Elapse
    /\ loop' = "poll"
    /\ UNCHANGED <<mock_trading, positions, daily_pnl, pc, idx, snapshot, visited,
                   obs, orders, trades, alerts, risk, running, pending>>

\* KeyboardInterrupt is raised in the main loop. Inside the try block (in
\* run_pending, in a job, in time.sleep(30)) "except KeyboardInterrupt"
\* catches it: running is cleared and start() returns. In time.sleep(60) the
\* interrupt is raised inside the handler of "except Exception", which no
\* except clause of start() covers: it leaves start() as an exception.
Interrupt ==
    /\ loop \in {"poll", "jobs", "job", "sleep", "backoff"}
    /\ running' = (loop = "backoff")
    /\ loop' = IF loop = "backoff" THEN "raised" ELSE "returned"
    /\ obs' = [NoObs EXCEPT !.op = "interrupt"]
    /\ pc' = "idle"
    /\ idx' = 0
    /\ orders' = <<>>
    /\ trades' = <<>>
    /\ alerts' = <<>>
    /\ pending' = <<>>
    /\ UNCHANGED <<mock_trading, positions, daily_pnl, snapshot, visited, risk,
                   clock, jobs>>

\* The candles the scheduled cycles are given: for every symbol a rise from
\* 99 to 100 (a bullish crossover) or a fall from 100 to 99 (a bearish
\* crossover, and the stop loss of an entry at 100)
SchedHistories ==
    {Series(SLOW_EMA_PERIOD, R(99), R(100)), Series(SLOW_EMA_PERIOD, R(100), R(99))}

\* one iteration of the loop of scan_and_trade, run by the scheduled job
SchedScanSymbol ==
    /\ loop = "job"
    /\ ScanStep(SchedHistories)
    /\ UNCHANGED schedVars

NextSched ==
    \/ Start
    \/ RunPending
    \/ RunScan
    \/ RunForceExit
    \/ SchedScanSymbol
    \/ ForceExitSymbol
    \/ JobReturn
    \/ JobRaises
    \/ Sleep
    \/ Backoff
    \/ Interrupt

SpecSched == Init /\ [][NextSched]_vars

(***************************************************************************)
(* Properties                                                              *)
(***************************************************************************)
Open == DOMAIN positions
Placed(side) == \E i \in 1..Len(orders) : orders[i].transaction_type = side

\* C1: the ledger never holds more than MAX_POSITIONS positions, and a BUY
\* is only placed after admission was granted on a count below the maximum
C1_MaxOpenPositions ==
    /\ Cardinality(Open) <= MAX_POSITIONS
    /\ \A i \in 1..Len(orders) :
         orders[i].transaction_type = "BUY" =>
            /\ obs.admit = "admitted"
            /\ Cardinality(Open \ {orders[i].symbol}) < MAX_POSITIONS

C1_Witness == Cardinality(Open) = MAX_POSITIONS /\ obs.admit = "refused"

\* C2: a loop iteration of scan_and_trade for a symbol with an open position
\* emits no BUY signal and places no BUY order, bullish crossover or not
C2_NoEnterWhileHeld ==
    (obs.op = "scan" /\ obs.held) => (obs.signal # "BUY" /\ ~Placed("BUY"))

C2_Witness ==
    obs.op = "scan" /\ obs.held /\ obs.xover = "bullish" /\ obs.exit = None

\* C3: exit signals and SELL orders only arise for a symbol that was in the
\* ledger, and execute_trade with a SELL for a symbol not in the ledger places
\* no order, logs and alerts nothing and leaves ledger and P&L as they were
C3_ExitOnlyForOpenPosition ==
    [][/\ obs'.exit # None => obs'.held
       /\ obs'.signal = "SELL" /\ obs'.op \in {"scan", "force"} => obs'.held
       /\ (\E i \in 1..Len(orders') : orders'[i].transaction_type = "SELL")
             => obs'.held
       /\ obs'.op = "execute" /\ obs'.signal = "SELL" /\ ~obs'.held =>
             /\ orders' = <<>> /\ trades' = <<>> /\ alerts' = <<>>
             /\ positions' = positions /\ daily_pnl' = daily_pnl]_vars

C3_Witness == obs.op = "execute" /\ obs.signal = "SELL" /\ ~obs.held

\* C4: a step whose order got no confirmation leaves the ledger as it was,
\* writes no trade row and sends no alert
C4_UnconfirmedChangesNothing ==
    [][(\E i \in 1..Len(orders') : ~orders'[i].confirmed) =>
          /\ positions' = positions
          /\ trades' = <<>>
          /\ alerts' = <<>>]_vars

C4_Witness ==
    /\ orders # <<>>
    /\ orders[1].transaction_type = "BUY"
    /\ ~orders[1].confirmed
    /\ orders[1].symbol \notin Open

\* C5: when the threshold check of a loop iteration of scan_and_trade finds a
\* breach, the iteration emits no crossover signal and places exactly one
\* order, the SELL of that exit, logged with the threshold's reason
C5_ThresholdExitFirst ==
    (obs.op = "scan" /\ obs.exit # None) =>
        /\ obs.exit \in {"Stop Loss", "Take Profit"}
        /\ obs.signal = None
        /\ Len(orders) = 1
        /\ orders[1].symbol = obs.symbol
        /\ orders[1].transaction_type = "SELL"
        /\ Len(trades) <= 1
        /\ \A i \in 1..Len(trades) : trades[i].reason = obs.exit

C5_Witness ==
    /\ obs.op = "scan"
    /\ obs.exit = "Stop Loss"
    /\ obs.xover = "bearish"
    /\ trades # <<>>

\* C6: for an open position with entry price E and latest close p, the exit
\* is "Stop Loss" when 100 p <= 99 E, else "Take Profit" when 100 p >= 102 E,
\* else there is none
C6_ThresholdLevels ==
    (obs.op = "scan" /\ obs.held /\ obs.bars > 0 /\ ~obs.raised) =>
        obs.exit =
            IF 100 * obs.price[1] * obs.entry[2] <= 99 * obs.entry[1] * obs.price[2]
            THEN "Stop Loss"
            ELSE IF 100 * obs.price[1] * obs.entry[2]
                        >= 102 * obs.entry[1] * obs.price[2]
            THEN "Take Profit"
            ELSE None

C6_Witness ==
    /\ obs.op = "scan"
    /\ obs.entry = R(100)
    /\ obs.price = R(99)
    /\ obs.exit = "Stop Loss"

\* C7: calculate_position_size returns 0 for equal prices and otherwise the
\* floor of 1000 / |entry - stop|, raised to 1 when that is below 1;
\* entry 100 and stop 99 give 1000
C7_PositionSize ==
    risk.fn = "calculate_position_size" =>
        LET num == risk.entry[1] * risk.stop[2] - risk.stop[1] * risk.entry[2]
            den == risk.entry[2] * risk.stop[2]
            dist == IF num < 0 THEN -num ELSE num
            floor == (1000 * den) \div dist
        IN  /\ risk.quantity =
                  IF dist = 0 THEN 0 ELSE IF floor < 1 THEN 1 ELSE floor
            /\ (risk.entry = R(100) /\ risk.stop = R(99)) => risk.quantity = 1000

C7_Witness ==
    /\ risk.fn = "calculate_position_size"
    /\ risk.entry = R(1101)
    /\ risk.stop = R(99)
    /\ risk.quantity = 1

\* C8: can_take_position is true exactly when the count is below
\* MAX_POSITIONS and daily_pnl is above -2500 (5% of the capital)
C8_Admission ==
    risk.fn = "can_take_position" =>
        risk.admit = (risk.count < 3 /\ daily_pnl[1] > -2500 * daily_pnl[2])

C8_Witness ==
    /\ risk.fn = "can_take_position"
    /\ risk.count < MAX_POSITIONS
    /\ daily_pnl = R(-2500)
    /\ ~risk.admit

\* C9 as stated: a symbol with fewer candles than the slow period gets no
\* signal of any kind and no order
C9_NoOrderOnShortHistory ==
    (obs.op = "scan" /\ obs.bars < SLOW_EMA_PERIOD) =>
        (obs.exit = None /\ obs.signal = None /\ orders = <<>>)

\* C9 amended: a symbol with fewer candles than the slow period gets no
\* crossover signal and no BUY; the only order it can get is the SELL of a
\* stop-loss or take-profit exit of its open position
C9_NoCrossoverOnShortHistory ==
    (obs.op = "scan" /\ obs.bars < SLOW_EMA_PERIOD) =>
        /\ obs.xover = None
        /\ obs.signal = None
        /\ ~Placed("BUY")
        /\ orders # <<>> => (obs.held /\ obs.exit \in {"Stop Loss", "Take Profit"})

C9_Witness ==
    /\ obs.op = "scan"
    /\ obs.bars = SLOW_EMA_PERIOD - 1
    /\ obs.exit = "Stop Loss"
    /\ Placed("SELL")

\* C10: force_exit_all_positions visits every symbol of its snapshot; a
\* visited symbol is out of the ledger exactly when its price was fetched and
\* its SELL confirmed, and the symbols not yet visited are still in the ledger
C10_ForceExitIsolation ==
    /\ DOMAIN visited \subseteq snapshot
    /\ \A s \in DOMAIN visited : (visited[s] = "sold") <=> (s \notin Open)
    /\ \A s \in snapshot \ DOMAIN visited : s \in Open
    /\ (pc = "idle" /\ obs.op \in {"snapshot", "force"}) => DOMAIN visited = snapshot

C10_Witness ==
    /\ pc = "idle"
    /\ \E s \in snapshot, t \in snapshot :
         /\ visited[s] = "no price" /\ s \in Open
         /\ visited[t] = "sold" /\ t \notin Open

\* C11: an exception that escapes a job leaves running set and takes the
\* loop to its backoff sleep with the job's next_run untouched; the backoff
\* ends in the next poll; start() is only ever left by an interrupt; and the
\* first job run after a cycle raised is that cycle again
C11_LoopSurvivesErrors ==
    [][/\ (loop = "job" /\ obs'.op = "error") =>
             (running' /\ loop' = "backoff" /\ jobs' = jobs)
       /\ (loop = "backoff" /\ loop' # "backoff") =>
             ((loop' = "poll" /\ running') \/ obs'.op = "interrupt")
       /\ (loop' \in {"returned", "raised"} /\ loop \notin {"returned", "raised"}) =>
             obs'.op = "interrupt"
       /\ (loop = "jobs" /\ loop' = "job" /\ obs.op = "error" /\ obs.job = "scan") =>
             obs'.op = "gate"]_vars

C11_Witness ==
    /\ running
    /\ loop = "jobs"
    /\ obs.op = "error"
    /\ obs.job = "scan"
    /\ Head(pending) = "scan"

\* C12: an interrupt delivered while the scheduler is running, in the
\* backoff sleep included, makes start() clear running and return; start()
\* is never left by the interrupt propagating
C12_InterruptStopsCleanly ==
    /\ loop # "raised"
    /\ loop = "returned" => ~running

\* C13: the market-hours gate reports open at every time when mock trading
\* is set, and otherwise exactly from 9:15 to 15:30, both ends included
C13_MarketHoursGate ==
    obs.op = "gate" =>
        (obs.market_open <=>
            (mock_trading \/ (9 * 60 + 15 <= obs.now /\ obs.now <= 15 * 60 + 30)))

C13_Witness ==
    /\ obs.op = "gate"
    /\ ~mock_trading
    /\ obs.now = 15 * 60 + 30
    /\ obs.market_open

\* C14: a call of scan_and_trade that finds the market closed returns at the
\* gate: it does not enter the watchlist loop (no candles fetched, no signal),
\* places no order, writes and sends nothing, and leaves the ledger and the
\* daily P&L as they were
C14_ClosedGateNoOp ==
    [][(obs'.op = "gate" /\ ~obs'.market_open) =>
          /\ pc' = "idle"
          /\ obs'.bars = 0 /\ obs'.signal = None /\ obs'.exit = None
          /\ orders' = <<>> /\ trades' = <<>> /\ alerts' = <<>>
          /\ positions' = positions
          /\ daily_pnl' = daily_pnl]_vars

C14_Witness ==
    /\ obs.op = "gate"
    /\ ~obs.market_open
    /\ pc = "idle"
    /\ Open # {}

\* C16: execute_trade given a BUY for a symbol that already has a position
\* leaves that position's entry as it was, the BUY confirmed or not
C16_AddRejectsExisting ==
    [][(obs'.op = "execute" /\ obs'.signal = "BUY" /\ obs'.held) =>
          /\ obs'.symbol \in DOMAIN positions'
          /\ positions'[obs'.symbol] = positions[obs'.symbol]]_vars

\* C17: a trigger's loop only runs inside the one job run_pending is in, a
\* job is only started when no trigger's loop is running, and the ledger is
\* only changed by a step of the trigger whose job is running
C17_OneTriggerAtATime ==
    [][/\ pc' # "idle" => (loop' = "job" /\ pending' # <<>> /\ Head(pending') = pc')
       /\ (loop' = "job" /\ loop # "job") => (loop = "jobs" /\ pc = "idle")
       /\ positions' # positions =>
             (loop = "job" /\ pc # "idle" /\ Head(pending) = pc
                /\ obs'.op = IF pc = "scan" THEN "scan" ELSE "force")]_vars

C17_Witness ==
    /\ loop = "job"
    /\ pc = "force"
    /\ pending = <<"force">>
    /\ jobs["scan"].last_run = clock
    /\ obs.op = "force"
    /\ orders # <<>>

\* C18: a loop iteration of scan_and_trade that finds a bearish crossover for
\* a symbol with an open position, and no threshold breach, submits a SELL
\* for that symbol however many positions are open
C18_ExitNotGated ==
    (obs.op = "scan" /\ obs.held /\ obs.xover = "bearish" /\ obs.exit = None) =>
        /\ obs.signal = "SELL"
        /\ \E i \in 1..Len(orders) :
             orders[i].transaction_type = "SELL" /\ orders[i].symbol = obs.symbol

\* C19: once today's force exit has run and the ledger is empty, the ledger
\* stays empty up to the market's closing time: no step taken at or before
\* 15:30 opens a position
C19_FlatAfterForceExit ==
    [][(/\ jobs["force"].last_run >= FORCE_EXIT_AT
        /\ clock <= MARKET_CLOSE
        /\ positions = NoPositions) => positions' = NoPositions]_vars

\* C20: every SELL handed to place_order, whatever the exit's reason, is for
\* a symbol in the ledger and carries the quantity of its ledger entry, which
\* has not changed since the position was opened; a confirmed SELL removes
\* the whole entry, an unconfirmed one leaves the ledger as it was
C20_SellQuantityFromLedger ==
    [][/\ \A s \in DOMAIN positions \cap DOMAIN positions' :
            positions'[s] = positions[s]
       /\ \A i \in 1..Len(orders') :
            orders'[i].transaction_type = "SELL" =>
               /\ orders'[i].symbol \in DOMAIN positions
               /\ orders'[i].quantity = positions[orders'[i].symbol].quantity
               /\ IF orders'[i].confirmed
                  THEN orders'[i].symbol \notin DOMAIN positions'
                  ELSE positions' = positions]_vars

C20_Witness ==
    /\ obs.op = "force"
    /\ obs.entry = R(102)
    /\ obs.price = R(100)
    /\ orders # <<>>
    /\ orders[1].confirmed
    /\ orders[1].quantity = 980
    /\ obs.symbol \notin Open

\* C21: a loop iteration of scan_and_trade that gets no candles, or in which
\* an exception is raised, leaves the ledger as it was, emits no signal and
\* places no order; and every iteration but the one for the last symbol of
\* the watchlist is followed by the iteration for the next symbol
C21_PerSymbolIsolation ==
    [][/\ (obs'.op = "scan" /\ obs' # obs /\ (obs'.bars = 0 \/ obs'.raised)) =>
             /\ positions' = positions
             /\ obs'.exit = None /\ obs'.signal = None
             /\ orders' = <<>> /\ trades' = <<>> /\ alerts' = <<>>
       /\ (pc = "scan" /\ obs'.op = "scan" /\ idx' # idx) =>
             /\ obs'.symbol = WATCHLIST[idx]
             /\ IF idx < Len(WATCHLIST)
                THEN pc' = "scan" /\ idx' = idx + 1
                ELSE pc' = "idle"]_vars

C21_Witness ==
    /\ obs.op = "scan"
    /\ obs.raised
    /\ obs.held
    /\ obs.symbol \in Open
    /\ pc = "scan"

\* C22 as stated: when a symbol that signals a BUY is refused for want of a
\* free slot, it gets no order, and the symbols that signalled a BUY before
\* it in this cycle while a slot was free have all been entered
C22_EarliestEntered ==
    (obs.op = "scan" /\ obs.signal = "BUY" /\ obs.admit = "refused") =>
        /\ orders = <<>>
        /\ \A s \in obs.unfilled : s \in Open

\* C22 amended: the iterations of a cycle follow the watchlist, one per
\* symbol; a symbol that signals a BUY is admitted exactly when the ledger
\* holds fewer than MAX_POSITIONS positions at its turn; an admitted symbol
\* gets one BUY order and is entered exactly when that order is confirmed; a
\* refused symbol gets no order and leaves the ledger as it was
C22_AdmissionInWatchlistOrder ==
    [][(obs'.op = "scan" /\ obs'.signal = "BUY" /\ idx' # idx) =>
          /\ obs'.symbol = WATCHLIST[idx]
          /\ idx' = IF idx = Len(WATCHLIST) THEN 0 ELSE idx + 1
          /\ IF Cardinality(DOMAIN positions) < MAX_POSITIONS
             THEN /\ obs'.admit = "admitted"
                  /\ Len(orders') = 1
                  /\ orders'[1].symbol = obs'.symbol
                  /\ orders'[1].transaction_type = "BUY"
                  /\ orders'[1].confirmed <=> obs'.symbol \in DOMAIN positions'
                  /\ \A s \in DOMAIN positions : s \in DOMAIN positions'
             ELSE /\ obs'.admit = "refused"
                  /\ orders' = <<>>
                  /\ positions' = positions]_vars

C22_Witness ==
    /\ obs.op = "scan"
    /\ obs.signal = "BUY"
    /\ obs.admit = "refused"
    /\ obs.unfilled # {}
    /\ Cardinality(Open) = MAX_POSITIONS

\* C23: no order handed to place_order has a quantity of 0 or less, and
\* execute_trade given a BUY at a price whose stop distance is 0 (sizing
\* returns 0) places no order, writes and sends nothing and leaves the
\* ledger as it was
C23_NoOrderWithoutQuantity ==
    [][/\ \A i \in 1..Len(orders') : orders'[i].quantity > 0
       /\ (obs'.op = "execute" /\ obs'.signal = "BUY" /\ obs'.price = R(0)
             /\ obs' # obs) =>
             /\ orders' = <<>> /\ trades' = <<>> /\ alerts' = <<>>
             /\ positions' = positions]_vars

C23_Witness ==
    /\ obs.op = "execute"
    /\ obs.signal = "BUY"
    /\ obs.price = R(0)
    /\ orders = <<>>
    /\ obs.symbol \notin Open

\* C24: the ledger starts empty; a confirmed BUY is only ever for a symbol
\* without a position and gives it one, a confirmed SELL is only ever for a
\* symbol with a position and takes it away, and a symbol enters or leaves
\* the ledger in no other way. So the confirmed orders of a symbol alternate
\* BUY, SELL, BUY, ..., and a symbol has a position exactly when its latest
\* confirmed order is a BUY.
C24_ConfirmedOrdersAlternate ==
    [][/\ \A i \in 1..Len(orders') :
            orders'[i].confirmed =>
               IF orders'[i].transaction_type = "BUY"
               THEN /\ orders'[i].symbol \notin DOMAIN positions
                    /\ orders'[i].symbol \in DOMAIN positions'
               ELSE /\ orders'[i].symbol \in DOMAIN positions
                    /\ orders'[i].symbol \notin DOMAIN positions'
       /\ \A s \in DOMAIN positions' \ DOMAIN positions :
            \E i \in 1..Len(orders') :
               /\ orders'[i].symbol = s /\ orders'[i].confirmed
               /\ orders'[i].transaction_type = "BUY"
       /\ \A s \in DOMAIN positions \ DOMAIN positions' :
            \E i \in 1..Len(orders') :
               /\ orders'[i].symbol = s /\ orders'[i].confirmed
               /\ orders'[i].transaction_type = "SELL"
       /\ obs.op = "init" => positions = NoPositions]_vars

C24_Witness ==
    /\ obs.op = "scan"
    /\ obs.signal = "SELL"
    /\ obs.admit = "admitted"
    /\ orders # <<>>
    /\ orders[1].confirmed
    /\ obs.symbol \notin Open
    /\ Open # {}

\* C25: daily_pnl is 0 until update_daily_pnl is first called; a step that
\* changes daily_pnl is a call of update_daily_pnl(pnl), which adds pnl to it
\* and touches neither the ledger nor the orders; scan_and_trade,
\* execute_trade and force_exit_all_positions leave daily_pnl as it was, a
\* confirmed SELL at a loss included
C25_DailyPnlOnlyBySettlement ==
    [][/\ risk.fn # "update_daily_pnl" => daily_pnl = R(0)
       /\ daily_pnl' # daily_pnl =>
             /\ risk'.fn = "update_daily_pnl"
             /\ daily_pnl' = RAdd(daily_pnl, risk'.pnl)
             /\ positions' = positions /\ obs' = obs /\ orders' = orders
       /\ obs' # obs => daily_pnl' = daily_pnl]_vars

C25_Witness ==
    /\ obs.op = "execute"
    /\ obs.signal = "SELL"
    /\ obs.entry = R(102)
    /\ obs.price = R(100)
    /\ trades # <<>>
    /\ daily_pnl = R(0)
    /\ risk.fn # "update_daily_pnl"

\* C26: with at least SLOW_EMA_PERIOD bars, generate_signal returns a BUY
\* exactly when prev_fast <= prev_slow and current_fast > current_slow and the
\* symbol has no open position, equal previous EMAs included; it returns no
\* BUY when current_fast <= current_slow or prev_fast > prev_slow
C26_BullishCrossoverEnters ==
    (obs.op = "generate_signal" /\ obs.bars >= SLOW_EMA_PERIOD) =>
        /\ Len(obs.emas) = 4
        /\ obs.signal = "BUY" <=>
              /\ RLe(obs.emas[1], obs.emas[2])
              /\ RGt(obs.emas[3], obs.emas[4])
              /\ ~obs.held
        /\ (RLe(obs.emas[3], obs.emas[4]) \/ RGt(obs.emas[1], obs.emas[2])) =>
              obs.signal # "BUY"

\* a BUY on a crossover whose previous EMAs are equal
C26_Witness ==
    /\ obs.op = "generate_signal"
    /\ obs.bars >= SLOW_EMA_PERIOD
    /\ ~obs.held
    /\ obs.emas[1] = obs.emas[2]
    /\ RGt(obs.emas[3], obs.emas[4])
    /\ obs.signal = "BUY"

\* the latest price is at or below the stop-loss level and at or above the
\* take-profit level of the position should_exit_position looked at
BothBreached ==
    /\ obs.op = "should_exit_position"
    /\ obs.held
    /\ RLe(obs.price, RMul(obs.entry, Rat(99, 100)))
    /\ RGe(obs.price, RMul(obs.entry, Rat(102, 100)))

\* C27: when the latest price breaches both the stop-loss and the
\* take-profit level of an open position, should_exit_position returns one
\* exit, and its reason is "Stop Loss"
C27_StopLossFirst ==
    BothBreached => obs.exit = "Stop Loss"

C27_Witness ==
    /\ BothBreached
    /\ obs.exit = "Stop Loss"

====
